---- MODULE Spec2Model ----
(***************************************************************************)
(* "New Yale" sparse storage of ext/nmatrix/storage/yale.cpp.              *)
(*                                                                         *)
(* A YALE_STORAGE is a record [shape, capacity, ndnz, ija, a].  The two    *)
(* buffers ija and a are functions on 0..capacity-1, indexed from 0 as in  *)
(* the source.  A cell that malloc returned and nobody wrote yet holds     *)
(* Uninit; when such a cell enters the in-use prefix without being         *)
(* written (the copy loops of vector_insert_resize) its content is chosen  *)
(* nondeterministically from Junk values.                                  *)
(***************************************************************************)
EXTENDS Integers, Sequences, FiniteSets, TLC

VARIABLES storage, phase, last, nins, ninit, right, walk

vars == <<storage, phase, last, nins, ninit, right, walk>>

(***************************************************************************)
(* Bounds of the model.                                                    *)
(***************************************************************************)
MaxVal == 1

MaxInitCap == 6

MaxInits == 2

Shapes == { <<1, 3>>, <<2, 2>>, <<2, 1>>, <<3, 1>> }

\* With a row wide enough to hold three off-diagonal entries.
WideShapes == Shapes \cup { <<1, 4>> }

Vals == 0 .. MaxVal

Uninit == -1

NoStorage == [none |-> TRUE]

NoWalk == [pc |-> "off"]

(***************************************************************************)
(* Constants and macros of yale.h / storage common code.                   *)
(***************************************************************************)
GROWTH_NUM == 3

GROWTH_DEN == 2

NM_YALE_MINIMUM(s) == s.shape[0] + 2

NM_YALE_MAX_SIZE(s) == s.shape[0] * s.shape[1] + 1

nm_storage_count_max_elements(s) == s.shape[0] * s.shape[1]

Grow(capacity) == (capacity * GROWTH_NUM) \div GROWTH_DEN

Min(x, y) == IF x < y THEN x ELSE y

mkshape(r, c) == [d \in 0 .. 1 |-> IF d = 0 THEN r ELSE c]

(***************************************************************************)
(* Lifecycle: alloc, nm_yale_storage_create, init.                         *)
(***************************************************************************)
alloc(shape) == [shape |-> shape, ndnz |-> 0]

ClampCapacity(s, init_capacity) ==
  LET max_capacity == nm_storage_count_max_elements(s) - s.shape[0] + 1
  IN  IF init_capacity < NM_YALE_MINIMUM(s) THEN NM_YALE_MINIMUM(s)
      ELSE IF init_capacity > max_capacity THEN max_capacity
      ELSE init_capacity

nm_yale_storage_create(shape, init_capacity) ==
  LET s0  == alloc(shape)
      cap == ClampCapacity(s0, init_capacity)
  IN  [shape    |-> shape,
       ndnz     |-> s0.ndnz,
       capacity |-> cap,
       ija      |-> [i \in 0 .. cap - 1 |-> Uninit],
       a        |-> [i \in 0 .. cap - 1 |-> Uninit]]

\* init writes ija[0..R] and a[0..R]; it stays inside the buffers only when
\* capacity >= R + 1.
InitInBounds(s) == s.shape[0] + 1 <= s.capacity

clear_diagonal_and_zero(s) ==
  [s EXCEPT !.a = [i \in DOMAIN s.a |-> IF i < s.shape[0] + 1 THEN 0 ELSE s.a[i]]]

init(s) ==
  LET IA_INIT == s.shape[0] + 1
      s1 == [s EXCEPT !.ija = [i \in DOMAIN s.ija |->
                                  IF i < IA_INIT THEN IA_INIT ELSE s.ija[i]]]
  IN  clear_diagonal_and_zero(s1)

get_size(s) == s.ija[s.shape[0]]

(***************************************************************************)
(* Index search.                                                           *)
(***************************************************************************)
RECURSIVE binary_search(_, _, _, _)
binary_search(s, left, right_, key) ==
  IF left > right_ THEN -1
  ELSE LET mid   == (left + right_) \div 2
           mid_j == s.ija[mid]
       IN  IF mid_j = key THEN mid
           ELSE IF mid_j > key THEN binary_search(s, left, mid - 1, key)
           ELSE binary_search(s, mid + 1, right_, key)

RECURSIVE insert_search(_, _, _, _)
insert_search(s, left, right_, key) ==
  IF left > right_ THEN [pos |-> left, found |-> FALSE]
  ELSE LET mid   == (left + right_) \div 2
           mid_j == s.ija[mid]
       IN  IF mid_j = key THEN [pos |-> mid, found |-> TRUE]
           ELSE IF mid_j > key THEN insert_search(s, left, mid - 1, key)
           ELSE insert_search(s, mid + 1, right_, key)

(***************************************************************************)
(* Vector insert / resize.  Both raises of vector_insert_resize are         *)
(* rb_eNoMemError; err tells them apart as CapacityExceeded ("insertion    *)
(* size exceeded maximum yale matrix size") and AllocationFailed           *)
(* (NM_CHECK_ALLOC).  env is what the allocator hands out:                 *)
(*   env.alloc : "ok", "fail_ija" or "fail_a"                              *)
(*   env.ija, env.a : the content of the fresh buffers, cell by cell.      *)
(* j and val are functions on 0..n-1.                                      *)
(***************************************************************************)
ResizeCapacity(s, current_size, n) ==
  LET grown == Grow(s.capacity)
      cap1  == IF grown > NM_YALE_MAX_SIZE(s) THEN NM_YALE_MAX_SIZE(s) ELSE grown
  IN  IF cap1 < current_size + n THEN current_size + n ELSE cap1

ResizeRaises(s, current_size, n) ==
  /\ Grow(s.capacity) > NM_YALE_MAX_SIZE(s)
  /\ current_size + n > NM_YALE_MAX_SIZE(s)

\* The upper bound of the second copy loop, as written in the source.
TailCopyBound(current_size, pos, n) == current_size - pos + n - 1

ResizedIja(s, current_size, pos, n, env) ==
  LET bound == TailCopyBound(current_size, pos, n)
  IN  [i \in 0 .. ResizeCapacity(s, current_size, n) - 1 |->
         IF i < pos THEN s.ija[i]
         ELSE IF i - n >= pos /\ i - n < bound THEN s.ija[i - n]
         ELSE env.ija[i]]

ResizedA(s, current_size, pos, n, struct_only, env) ==
  LET bound == TailCopyBound(current_size, pos, n)
  IN  [i \in 0 .. ResizeCapacity(s, current_size, n) - 1 |->
         IF struct_only THEN env.a[i]
         ELSE IF i < pos THEN s.a[i]
         ELSE IF i - n >= pos /\ i - n < bound THEN s.a[i - n]
         ELSE env.a[i]]

\* A slip: the capacity field is updated before the raise and the allocations.
vector_insert_resize_capacity_first(s, current_size, pos, j, n, struct_only, env) ==
  LET s1 == [s EXCEPT !.capacity = ResizeCapacity(s, current_size, n)]
  IN  IF ResizeRaises(s, current_size, n)
        THEN [s |-> s1, ret |-> "none", err |-> "CapacityExceeded"]
      ELSE IF env.alloc # "ok"
        THEN [s |-> s1, ret |-> "none", err |-> "AllocationFailed"]
      ELSE [s   |-> [s1 EXCEPT !.ija = ResizedIja(s, current_size, pos, n, env),
                               !.a   = ResizedA(s, current_size, pos, n, struct_only, env)],
            ret |-> "i", err |-> "none"]

vector_insert_resize(s, current_size, pos, j, n, struct_only, env) ==
  IF ResizeRaises(s, current_size, n)
    THEN [s |-> s, ret |-> "none", err |-> "CapacityExceeded"]
  ELSE IF env.alloc # "ok"
    THEN [s |-> s, ret |-> "none", err |-> "AllocationFailed"]
  ELSE [s   |-> [s EXCEPT !.capacity = ResizeCapacity(s, current_size, n),
                          !.ija = ResizedIja(s, current_size, pos, n, env),
                          !.a   = ResizedA(s, current_size, pos, n, struct_only, env)],
        ret |-> "i", err |-> "none"]

\* The guard of vector_insert, as written in the source.
InsertPosRejected(s, pos) == pos < s.shape[0]

ShiftInPlace(s, size, pos, n, struct_only) ==
  LET moved(i) == i >= pos + n /\ i < size + n
  IN  [s EXCEPT
         !.ija = [i \in DOMAIN s.ija |-> IF moved(i) THEN s.ija[i - n] ELSE s.ija[i]],
         !.a   = [i \in DOMAIN s.a |->
                    IF (~struct_only) /\ moved(i) THEN s.a[i - n] ELSE s.a[i]]]

WriteNew(s, pos, j, val, n, struct_only) ==
  LET here(i) == i >= pos /\ i < pos + n
  IN  [s EXCEPT
         !.ija = [i \in DOMAIN s.ija |-> IF here(i) THEN j[i - pos] ELSE s.ija[i]],
         !.a   = [i \in DOMAIN s.a |->
                    IF (~struct_only) /\ here(i) THEN val[i - pos] ELSE s.a[i]]]

vector_insert(s, pos, j, val, n, struct_only, env) ==
  IF InsertPosRejected(s, pos)
    THEN [s |-> s, ret |-> "none", err |-> "ArgError"]
  ELSE
    LET size == get_size(s)
    IN  IF size + n > s.capacity
          THEN LET r == vector_insert_resize(s, size, pos, j, n, struct_only, env)
               IN  IF r.err # "none" THEN r
                   ELSE [s   |-> WriteNew(r.s, pos, j, val, n, struct_only),
                         ret |-> "i", err |-> "none"]
          ELSE [s   |-> WriteNew(ShiftInPlace(s, size, pos, n, struct_only),
                                 pos, j, val, n, struct_only),
                ret |-> "i", err |-> "none"]

(***************************************************************************)
(* Row accounting.                                                         *)
(***************************************************************************)
increment_ia_after(s, ija_size, i, n) ==
  [s EXCEPT !.ija = [k \in DOMAIN s.ija |->
                       IF k >= i + 1 /\ k <= ija_size THEN s.ija[k] + n ELSE s.ija[k]]]

(***************************************************************************)
(* Accessors.                                                              *)
(***************************************************************************)
\* The position in a that ref returns a pointer to.
ref_pos(s, coords) ==
  IF coords[0] = coords[1] THEN coords[0]
  ELSE IF s.ija[coords[0]] = s.ija[coords[0] + 1] THEN s.shape[0]
  ELSE LET pos == binary_search(s, s.ija[coords[0]], s.ija[coords[0] + 1] - 1, coords[1])
       IN  IF pos # -1 /\ s.ija[pos] = coords[1] THEN pos ELSE s.shape[0]

ref(s, coords) == s.a[ref_pos(s, coords)]

one(x) == [k \in 0 .. 0 |-> x]

InsertAndCount(s, pos, coords, v, env) ==
  LET r == vector_insert(s, pos, one(coords[1]), one(v), 1, FALSE, env)
  IN  IF r.err # "none" THEN r
      ELSE LET s1 == increment_ia_after(r.s, r.s.shape[0], coords[0], 1)
           IN  [s |-> [s1 EXCEPT !.ndnz = s1.ndnz + 1], ret |-> r.ret, err |-> "none"]

set(s, coords, v, env) ==
  IF coords[0] = coords[1]
    THEN [s |-> [s EXCEPT !.a[coords[0]] = v], ret |-> "r", err |-> "none"]
  ELSE IF s.ija[coords[0]] = s.ija[coords[0] + 1]
    THEN InsertAndCount(s, s.ija[coords[0]], coords, v, env)
  ELSE
    LET f == insert_search(s, s.ija[coords[0]], s.ija[coords[0] + 1] - 1, coords[1])
    IN  IF f.found
          THEN [s   |-> [s EXCEPT !.ija[f.pos] = coords[1], !.a[f.pos] = v],
                ret |-> "r", err |-> "none"]
          ELSE InsertAndCount(s, f.pos, coords, v, env)

(***************************************************************************)
(* What the allocator can hand out to one call of set.                     *)
(***************************************************************************)
\* The position at which set would insert, or -1 when it replaces.
SetInsertPos(s, coords) ==
  IF coords[0] = coords[1] THEN -1
  ELSE IF s.ija[coords[0]] = s.ija[coords[0] + 1] THEN s.ija[coords[0]]
  ELSE LET f == insert_search(s, s.ija[coords[0]], s.ija[coords[0] + 1] - 1, coords[1])
       IN  IF f.found THEN -1 ELSE f.pos

\* Does an insertion of n cells at pos reach the allocator?
Allocates(s, pos, n) ==
  /\ pos >= 0
  /\ ~InsertPosRejected(s, pos)
  /\ get_size(s) + n > s.capacity
  /\ ~ResizeRaises(s, get_size(s), n)

\* The cells of the new in-use prefix that neither copy loop writes.
Holes(s, pos, n) ==
  IF ~Allocates(s, pos, n) THEN {}
  ELSE { i \in pos + n .. get_size(s) + n - 1 :
           ~(i - n < TailCopyBound(get_size(s), pos, n)) }

JunkIdx(s) == 0 .. s.shape[1] - 1

\* Junk values: the zero and one nonzero value.
JunkVals == {0, 1}

FreshBuffers(s, H, junk) ==
  { [i \in 0 .. NM_YALE_MAX_SIZE(s) + 1 |-> IF i \in H THEN f[i] ELSE Uninit] :
      f \in [H -> junk] }

\* A failed allocation hands out no buffer, so its content is not chosen.
Envs(s, pos, n) ==
  LET H == Holes(s, pos, n)
  IN  { [alloc |-> "ok", ija |-> bi, a |-> ba] :
          bi \in FreshBuffers(s, H, JunkIdx(s)), ba \in FreshBuffers(s, H, JunkVals) }
      \cup
      { [alloc |-> al, ija |-> bi, a |-> ba] :
          al \in (IF Allocates(s, pos, n) THEN {"fail_ija", "fail_a"} ELSE {}),
          bi \in FreshBuffers(s, {}, {}), ba \in FreshBuffers(s, {}, {}) }

(***************************************************************************)
(* The state machine of one descriptor: create, then init and set calls.   *)
(***************************************************************************)
Rows == storage.shape[0]

Cols == storage.shape[1]

NoOp == [op |-> "create", coords |-> mkshape(0, 0), v |-> 0, ret |-> "none",
         err |-> "none", again |-> FALSE]

InitWith(shapes) ==
  /\ \E sh \in shapes, init_capacity \in 0 .. MaxInitCap :
       /\ storage = nm_yale_storage_create(mkshape(sh[1], sh[2]), init_capacity)
       /\ last = [NoOp EXCEPT !.v = init_capacity]
  /\ phase = "created"
  /\ nins = 0
  /\ ninit = 0
  /\ right = NoStorage
  /\ walk = NoWalk

InitOp ==
  /\ phase \in {"created", "ready"}
  /\ ninit < MaxInits
  /\ ninit' = ninit + 1
  /\ storage' = init(storage)
  /\ phase' = IF InitInBounds(storage) THEN "ready" ELSE "ub"
  /\ last' = [NoOp EXCEPT !.op = "init"]
  /\ nins' = 0
  /\ UNCHANGED <<right, walk>>

SetOp(r, c, v) ==
  /\ phase = "ready"
  /\ LET coords == mkshape(r, c)
     IN  \E env \in Envs(storage, SetInsertPos(storage, coords), 1) :
           LET res == set(storage, coords, v, env)
           IN  /\ storage' = res.s
               /\ last' = [op |-> "set", coords |-> coords, v |-> v, ret |-> res.ret,
                           err |-> res.err,
                           again |-> /\ last.op = "set"
                                     /\ last.err = "none"
                                     /\ last.coords = coords
                                     /\ last.v = v]
               /\ nins' = IF res.ret = "i" THEN nins + 1 ELSE nins
  /\ UNCHANGED <<phase, ninit, right, walk>>

Next ==
  \/ InitOp
  \/ \E r \in 0 .. Rows - 1, c \in 0 .. Cols - 1, v \in Vals : SetOp(r, c, v)

Init == InitWith(Shapes)

InitWide == InitWith(WideShapes)

Spec == Init /\ [][Next]_vars

SpecWide == InitWide /\ [][Next]_vars

(***************************************************************************)
(* vector_insert called directly, as create_merged and set call it, with   *)
(* a position of the caller's choice.  What the caller does next is not    *)
(* followed: the descriptor is left as vector_insert returned it.          *)
(***************************************************************************)
InsertOp(pos, j, v) ==
  /\ phase = "ready"
  /\ \E env \in Envs(storage, pos, 1) :
       LET res == vector_insert(storage, pos, one(j), one(v), 1, FALSE, env)
       IN  /\ storage' = res.s
           /\ last' = [op |-> "insert", coords |-> mkshape(pos, j), v |-> v,
                       ret |-> res.ret, err |-> res.err, again |-> FALSE]
  /\ phase' = "inserted"
  /\ UNCHANGED <<nins, ninit, right, walk>>

NextInsert ==
  \/ Next
  \/ \E pos \in 0 .. Rows + 1, j \in 0 .. Cols - 1 : InsertOp(pos, j, MaxVal)

SpecInsert == Init /\ [][NextInsert]_vars

(***************************************************************************)
(* eqeq on two descriptors.  The inputs are built by create, init and the  *)
(* set calls of a cell map, in row-major order (every insertion is then at *)
(* the end of the in-use prefix).  The walk is followed one loop iteration *)
(* at a time.  A read of a cell nobody wrote yields any value; a read      *)
(* outside the buffer ends the walk in "ub".                               *)
(***************************************************************************)
EqShapes == { <<1, 3>>, <<1, 4>>, <<2, 2>> }

Absent == -2

NoJunk(s) ==
  [alloc |-> "ok",
   ija   |-> [i \in 0 .. NM_YALE_MAX_SIZE(s) + 1 |-> Uninit],
   a     |-> [i \in 0 .. NM_YALE_MAX_SIZE(s) + 1 |-> Uninit]]

CellMaps(sh) ==
  { cm \in [(0 .. sh[1] - 1) \X (0 .. sh[2] - 1) -> {Absent} \cup Vals] :
      \A i \in 0 .. sh[1] - 1, k \in 0 .. sh[2] - 1 : (i = k) => cm[<<i, k>>] # Absent }

RECURSIVE BuildFrom(_, _, _)
BuildFrom(s, k, cm) ==
  IF k >= s.shape[0] * s.shape[1] THEN s
  ELSE LET r == k \div s.shape[1]
           c == k % s.shape[1]
       IN  IF cm[<<r, c>>] = Absent THEN BuildFrom(s, k + 1, cm)
           ELSE BuildFrom(set(s, mkshape(r, c), cm[<<r, c>>], NoJunk(s)).s, k + 1, cm)

Build(sh, cm) ==
  LET shape == mkshape(sh[1], sh[2])
      s0    == nm_yale_storage_create(shape, sh[1] * sh[2] + 1)
  IN  BuildFrom(init(s0), 0, cm)

ndrow_is_empty(s, ija, ija_next) ==
  IF ija = ija_next THEN TRUE
  ELSE \A p \in ija .. ija_next - 1 : s.a[p] = 0

StartWalk ==
  [pc |-> "eqeq", i |-> 0, l_ija |-> 0, l_ija_next |-> 0, r_ija |-> 0, r_ija_next |-> 0,
   l_ja |-> 0, r_ja |-> 0, ja |-> 0, l_no_more |-> FALSE, r_no_more |-> FALSE,
   result |-> FALSE, reads |-> {}]

Return(w, b) == [w EXCEPT !.pc = "done", !.result = b]

\* The value read at a[p]: what was written there, or anything (g).
ReadA(s, p, g) == IF s.a[p] = Uninit THEN g ELSE s.a[p]

InitEq ==
  /\ \E sh \in EqShapes :
       \E cl \in CellMaps(sh), cr \in CellMaps(sh) :
         /\ storage = Build(sh, cl)
         /\ right = Build(sh, cr)
  /\ phase = "ready"
  /\ last = [NoOp EXCEPT !.op = "eqeq"]
  /\ nins = 0
  /\ ninit = 1
  /\ walk = StartWalk

\* eqeq, lines 376-382: compare the diagonals.
EqDiag ==
  /\ walk.pc = "eqeq"
  /\ walk' = IF \E index \in 0 .. Rows - 1 : storage.a[index] # right.a[index]
               THEN Return(walk, FALSE)
               ELSE [walk EXCEPT !.pc = "row", !.i = 0]
  /\ UNCHANGED <<storage, right, phase, last, nins, ninit>>

\* eqeq, lines 387-412: one iteration of the loop on rows.
EqRow ==
  /\ walk.pc = "row"
  /\ LET i          == walk.i
         l_ija      == storage.ija[i]
         l_ija_next == storage.ija[i + 1]
         r_ija      == right.ija[i]
         r_ija_next == right.ija[i + 1]
         l_ja       == storage.ija[l_ija]
         r_ja       == right.ija[r_ija]
     IN  walk' =
           IF i >= Rows THEN Return(walk, TRUE)
           ELSE IF ndrow_is_empty(storage, l_ija, l_ija_next)
             THEN IF ~ndrow_is_empty(right, r_ija, r_ija_next)
                    THEN Return(walk, FALSE)
                    ELSE [walk EXCEPT !.i = i + 1]
           ELSE IF ndrow_is_empty(right, r_ija, r_ija_next)
             THEN Return(walk, FALSE)
           ELSE [walk EXCEPT !.pc = "ndrow",
                             !.l_ija = l_ija, !.l_ija_next = l_ija_next,
                             !.r_ija = r_ija, !.r_ija_next = r_ija_next,
                             !.l_ja = l_ja, !.r_ja = r_ja, !.ja = Min(l_ja, r_ja),
                             !.l_no_more = FALSE, !.r_no_more = FALSE,
                             !.reads = {}]
  /\ UNCHANGED <<storage, right, phase, last, nins, ninit>>

\* ndrow_eqeq_ndrow, lines 437-458: the columns coincide.
WalkBoth(w, gl, gr) ==
  IF w.r_ija \notin DOMAIN right.a \/ w.l_ija \notin DOMAIN storage.a
    THEN [w EXCEPT !.pc = "ub"]
  ELSE
    LET w0 == [w EXCEPT !.reads = @ \cup {<<"l", w.l_ija>>, <<"r", w.r_ija>>}]
    IN  IF ReadA(right, w.r_ija, gr) # ReadA(storage, w.l_ija, gl)
          THEN Return(w0, FALSE)
        ELSE
          LET l_ija  == w.l_ija + 1
              r_ija  == w.r_ija + 1
              l_more == l_ija < w.l_ija_next
              r_more == r_ija < w.r_ija_next
              l_ja   == IF l_more THEN storage.ija[l_ija] ELSE w.l_ja
              r_ja   == IF r_more THEN right.ija[r_ija] ELSE w.r_ja
          IN  [w0 EXCEPT !.l_ija = l_ija, !.r_ija = r_ija,
                         !.l_ja = l_ja, !.r_ja = r_ja,
                         !.l_no_more = IF l_more THEN @ ELSE TRUE,
                         !.r_no_more = IF r_more THEN @ ELSE TRUE,
                         !.ja = Min(l_ja, r_ja)]

\* ndrow_eqeq_ndrow, lines 460-472: the right side holds the smaller column.
WalkRight(w, gr) ==
  IF w.r_ija \notin DOMAIN right.a THEN [w EXCEPT !.pc = "ub"]
  ELSE
    LET w0 == [w EXCEPT !.reads = @ \cup {<<"r", w.r_ija>>}]
    IN  IF ReadA(right, w.r_ija, gr) # 0 THEN Return(w0, FALSE)
        ELSE
          LET r_ija == w.r_ija + 1
          IN  IF r_ija < w.r_ija_next
                THEN [w0 EXCEPT !.r_ija = r_ija, !.r_ja = right.ija[r_ija],
                                !.ja = Min(w.l_ja, right.ija[r_ija])]
                ELSE [w0 EXCEPT !.r_ija = r_ija, !.l_no_more = TRUE]

\* ndrow_eqeq_ndrow, lines 474-485: the left side holds the smaller column.
WalkLeft(w, gl) ==
  IF w.l_ija \notin DOMAIN storage.a THEN [w EXCEPT !.pc = "ub"]
  ELSE
    LET w0 == [w EXCEPT !.reads = @ \cup {<<"l", w.l_ija>>}]
    IN  IF ReadA(storage, w.l_ija, gl) # 0 THEN Return(w0, FALSE)
        ELSE
          LET l_ija == w.l_ija + 1
          IN  IF l_ija < w.l_ija_next
                THEN [w0 EXCEPT !.l_ija = l_ija, !.l_ja = storage.ija[l_ija],
                                !.ja = Min(storage.ija[l_ija], w.r_ja)]
                ELSE [w0 EXCEPT !.l_ija = l_ija, !.l_no_more = TRUE]

\* ndrow_eqeq_ndrow, lines 436-493: the loop test and one iteration.
EqWalk ==
  /\ walk.pc = "ndrow"
  /\ \E gl \in Vals, gr \in Vals :
       walk' =
         IF walk.l_no_more /\ walk.r_no_more
           THEN [walk EXCEPT !.pc = "row", !.i = @ + 1]
         ELSE IF walk.l_ja = walk.r_ja THEN WalkBoth(walk, gl, gr)
         ELSE IF walk.l_no_more \/ walk.ja < walk.l_ja THEN WalkRight(walk, gr)
         ELSE IF walk.r_no_more \/ walk.ja < walk.r_ja THEN WalkLeft(walk, gl)
         ELSE walk
  /\ UNCHANGED <<storage, right, phase, last, nins, ninit>>

NextEq == EqDiag \/ EqRow \/ EqWalk

SpecEq == InitEq /\ [][NextEq]_vars

(***************************************************************************)
(* Facts about one descriptor used by the claims below.                    *)
(***************************************************************************)
RowPtrs(s) == [i \in 0 .. s.shape[0] |-> s.ija[i]]

\* init, and every set since, stayed inside the buffers.
Defined == phase = "ready"

I1(s) ==
  \A i \in 0 .. s.shape[0] - 1 :
    \A p \in s.ija[i] .. s.ija[i + 1] - 2 : s.ija[p] < s.ija[p + 1]

I2(s) ==
  /\ s.shape[0] \in DOMAIN s.ija
  /\ s.shape[0] + 1 <= s.ija[0]
  /\ \A i \in 0 .. s.shape[0] - 1 : s.ija[i] <= s.ija[i + 1]

Empty(s) ==
  /\ s.shape[0] \in DOMAIN s.ija
  /\ \A i \in 0 .. s.shape[0] : s.ija[i] = s.shape[0] + 1 /\ s.a[i] = 0

\* C1: the value ref reads at (r,c) right after a successful set(D,(r,c),v)
\* is v.
C1_SetRefRoundTrip ==
  (last.op = "set" /\ last.err = "none") => ref(storage, last.coords) = last.v

\* C2 (I1): after create, init and any sets, the column indices of every row
\* are strictly increasing.
C2_RowsSorted == Defined => I1(storage)

\* C3 (I2): after create, init and any sets, R+1 <= ija[0], the row pointers
\* are nondecreasing, and ija[R] is R + 1 + the number of insertions made
\* since init.
C3_RowPointers ==
  phase # "created" => (I2(storage) /\ storage.ija[Rows] = Rows + 1 + nins)

\* The same, for the descriptors whose init stayed inside the buffers.
I2_WhenInBounds ==
  Defined => (I2(storage) /\ storage.ija[Rows] = Rows + 1 + nins)

\* C4 (I3): R + 2 <= capacity, size <= capacity <= rows*cols + 1, and the
\* capacity never decreases from one state to the next.
C4_CapacityBound ==
  /\ [](/\ Rows + 2 <= storage.capacity
        /\ storage.capacity <= Rows * Cols + 1
        /\ (Defined => get_size(storage) <= storage.capacity))
  /\ [][storage'.capacity >= storage.capacity]_vars

\* The parts of I3 that do hold: size <= capacity, capacity never decreases.
I3_SizeFits == Defined => get_size(storage) <= storage.capacity

I3_NeverShrinks == [][storage'.capacity >= storage.capacity]_vars

\* C5: a set repeated with the same coordinates and value returns 'r' and
\* leaves size, ndnz, capacity and every row pointer as they were.
C5_IdempotentSet ==
  [][(last'.op = "set" /\ last'.again) =>
       /\ last'.ret = "r"
       /\ RowPtrs(storage') = RowPtrs(storage)
       /\ storage'.ndnz = storage.ndnz
       /\ storage'.capacity = storage.capacity]_vars

\* C7: a set whose insertion fails (CapacityExceeded or a failed allocation)
\* leaves ija, a, capacity, size and ndnz exactly as they were.
C7_FailureAtomic ==
  [][(last'.op = "set" /\ last'.err # "none") => storage' = storage]_vars

\* A failed insertion: the descriptor is full up to rows*cols + 1 and a set of
\* a column that the search does not find was refused.
C7_Witness ==
  /\ last.op = "set"
  /\ last.err = "CapacityExceeded"
  /\ get_size(storage) + 1 > NM_YALE_MAX_SIZE(storage)

\* An insertion refused by the allocator.
C7_WitnessAlloc == last.op = "set" /\ last.err = "AllocationFailed"

\* C9: create clamps the request to [min_capacity, rows*cols + 1], and
\* min_capacity <= capacity <= rows*cols + 1 for every shape and request.
C9_CreateClamp ==
  last.op = "create" =>
    LET min_capacity == NM_YALE_MINIMUM(storage)
        max_capacity == Rows * Cols + 1
    IN  /\ storage.capacity =
             (IF last.v < min_capacity THEN min_capacity
              ELSE IF last.v > max_capacity THEN max_capacity
              ELSE last.v)
        /\ min_capacity <= storage.capacity
        /\ storage.capacity <= max_capacity

\* C10: init leaves every row pointer at R + 1, the diagonal and a[R] at
\* zero, and a second init changes nothing.
C10_InitResets ==
  last.op = "init" => (Empty(storage) /\ init(storage) = storage)

\* The same, for the descriptors whose capacity holds the R + 1 row pointers.
Init_WhenInBounds ==
  (last.op = "init" /\ Defined) => (Empty(storage) /\ init(storage) = storage)

\* The two descriptors represent the same matrix (i,j) -> value, a stored
\* zero counting as a missing entry.
SameMatrix(l, r) ==
  \A i \in 0 .. l.shape[0] - 1, k \in 0 .. l.shape[1] - 1 :
    ref(l, mkshape(i, k)) = ref(r, mkshape(i, k))

\* C6: eqeq on two well-formed descriptors of one shape returns, and returns
\* true exactly when they represent the same matrix.
C6_EqeqIsSameMatrix ==
  /\ walk.pc # "ub"
  /\ walk.pc = "done" => (walk.result <=> SameMatrix(storage, right))

\* C8: vector_insert called with pos < R + 1 aborts with an error and
\* modifies nothing.
C8_InsertRejectsPrefix ==
  [][(last'.op = "insert" /\ last'.coords[0] < Rows + 1) =>
       (last'.err = "ArgError" /\ storage' = storage)]_vars

\* What the guard does reject: every pos < R, with nothing modified.
Insert_RejectsBelowR ==
  [][(last'.op = "insert" /\ last'.coords[0] < Rows) =>
       (last'.err = "ArgError" /\ storage' = storage)]_vars

(***************************************************************************)
(* create_merged(left, right).  storage is left, right is right, and walk  *)
(* holds the locals of the call: the result s, the loop variables, and     *)
(* stale, which tells that sija (taken once, before the loops) points to a *)
(* buffer that vector_insert_resize has freed.  One step is one iteration  *)
(* of a loop.  A read through sija of a cell nobody wrote yields any       *)
(* column; a read through a stale sija or outside the buffer ends the call *)
(* in "ub".                                                                *)
(***************************************************************************)
MergeShapes == { <<1, 3>>, <<2, 2>>, <<2, 3>> }

\* Cell maps of structural inputs: a zero diagonal, off-diagonal cells stored
\* or not.
PatternMaps(sh) ==
  { cm \in CellMaps(sh) :
      \A i \in 0 .. sh[1] - 1, k \in 0 .. sh[2] - 1 :
        IF i = k THEN cm[<<i, k>>] = 0 ELSE cm[<<i, k>>] \in {Absent, MaxVal} }

Max(x, y) == IF x > y THEN x ELSE y

copy_alloc_struct(rhs, new_capacity, new_size) ==
  [shape    |-> rhs.shape,
   ndnz     |-> rhs.ndnz,
   capacity |-> new_capacity,
   ija      |-> [i \in 0 .. new_capacity - 1 |->
                   IF i < get_size(rhs) THEN rhs.ija[i] ELSE Uninit],
   a        |-> [i \in 0 .. new_capacity - 1 |-> Uninit]]

\* create_merged, lines 201-210: the result before the loops.
MergeStart(left, right_) ==
  LET s == copy_alloc_struct(left, Max(left.capacity, right_.capacity), get_size(left))
  IN  [s EXCEPT !.a[s.shape[0]] = left.a[left.shape[0]]]

\* Is sija[p] a read the language defines?
SijaReadable(w, p) == (~w.stale) /\ p \in DOMAIN w.s.ija

\* The value of sija[p]: what was written there, or anything (g).
ReadSija(w, p, g) == IF w.s.ija[p] = Uninit THEN g ELSE w.s.ija[p]

InitMerge ==
  /\ \E sh \in MergeShapes :
       \E cl \in PatternMaps(sh), cr \in PatternMaps(sh) :
         /\ storage = Build(sh, cl)
         /\ right = Build(sh, cr)
  /\ phase = "ready"
  /\ last = [NoOp EXCEPT !.op = "merge"]
  /\ nins = 0
  /\ ninit = 1
  /\ walk = [pc |-> "merge", s |-> NoStorage, i |-> 0, ija |-> 0, ija_next |-> 0,
             r_ija |-> 0, ins_type |-> "unset", stale |-> FALSE, err |-> "none"]

\* create_merged, lines 201-212.
MergeBegin ==
  /\ walk.pc = "merge"
  /\ walk' = [walk EXCEPT !.pc = "mrow", !.s = MergeStart(storage, right)]
  /\ UNCHANGED <<storage, right, phase, last, nins, ninit>>

\* create_merged, lines 215-220: the head of the loop on rows.
MergeRow ==
  /\ walk.pc = "mrow"
  /\ \E g0 \in JunkIdx(storage), g1 \in JunkIdx(storage) :
       walk' =
         IF walk.i >= Rows THEN [walk EXCEPT !.pc = "done"]
         ELSE IF ~(SijaReadable(walk, walk.i) /\ SijaReadable(walk, walk.i + 1))
           THEN [walk EXCEPT !.pc = "ub"]
         ELSE [walk EXCEPT !.pc = "mcol",
                           !.ija = ReadSija(walk, walk.i, g0),
                           !.ija_next = ReadSija(walk, walk.i + 1, g1),
                           !.r_ija = right.ija[walk.i]]
  /\ UNCHANGED <<storage, right, phase, last, nins, ninit>>

\* create_merged, lines 226-231 and 240-244: the insertion and what follows it.
\* bump tells whether ija_next is incremented.
MergeInsert(w, pos, ja, env, bump) ==
  LET r == vector_insert(w.s, pos, one(ja), one(0), 1, TRUE, env)
  IN  IF r.err # "none" THEN [w EXCEPT !.pc = "raised", !.err = r.err]
      ELSE LET s1 == increment_ia_after(r.s, r.s.shape[0], w.i, 1)
           IN  [w EXCEPT !.s = [s1 EXCEPT !.ndnz = s1.ndnz + 1],
                         !.stale = @ \/ (r.s.capacity # w.s.capacity),
                         !.ija_next = IF bump THEN @ + 1 ELSE @]

\* create_merged, lines 220-250: one iteration of the loop on right's row.
MergeColStep(w, g, env, bump) ==
  IF w.r_ija >= right.ija[w.i + 1] THEN [w EXCEPT !.pc = "mrow", !.i = @ + 1]
  ELSE IF ~SijaReadable(w, w.ija) THEN [w EXCEPT !.pc = "ub"]
  ELSE
    LET ja == ReadSija(w, w.ija, g)
    IN  IF w.ija = w.ija_next
          THEN LET w1 == MergeInsert(w, w.ija, ja, env, TRUE)
               IN  IF w1.pc = "raised" THEN w1
                   ELSE [w1 EXCEPT !.ins_type = "i", !.ija = @ + 1, !.r_ija = @ + 1]
        ELSE
          LET f == insert_search(w.s, w.ija, w.ija_next - 1, ja)
          IN  IF f.found THEN [w EXCEPT !.ija = f.pos + 1, !.r_ija = @ + 1]
              ELSE IF f.pos \notin DOMAIN w.s.ija THEN [w EXCEPT !.pc = "ub"]
              ELSE LET w1 == MergeInsert(w, f.pos, ja, env,
                                         IF w.ins_type = "unset" THEN bump
                                         ELSE w.ins_type = "i")
                   IN  IF w1.pc = "raised" THEN w1
                       ELSE [w1 EXCEPT !.ija = f.pos + 1, !.r_ija = @ + 1]

\* The position at which the iteration would insert, or -1.
MergeInsertPos(w, g) ==
  IF w.r_ija >= right.ija[w.i + 1] \/ ~SijaReadable(w, w.ija) THEN -1
  ELSE IF w.ija = w.ija_next THEN w.ija
  ELSE LET f == insert_search(w.s, w.ija, w.ija_next - 1, ReadSija(w, w.ija, g))
       IN  IF f.found \/ f.pos \notin DOMAIN w.s.ija THEN -1 ELSE f.pos

MergeCol ==
  /\ walk.pc = "mcol"
  /\ \E g \in JunkIdx(storage), bump \in BOOLEAN :
       \E env \in Envs(walk.s, MergeInsertPos(walk, g), 1) :
         walk' = MergeColStep(walk, g, env, bump)
  /\ UNCHANGED <<storage, right, phase, last, nins, ninit>>

NextMerge == MergeBegin \/ MergeRow \/ MergeCol

SpecMerge == InitMerge /\ [][NextMerge]_vars

\* The columns stored in row i of s.
RowCols(s, i) == { s.ija[p] : p \in s.ija[i] .. s.ija[i + 1] - 1 }

\* C11: create_merged on two well-formed descriptors of one shape never leaves
\* defined behaviour, and the descriptor it returns satisfies I2 and I1 and
\* holds in every row exactly the union of the columns of left's and right's
\* row.
C11_MergeIsUnion ==
  last.op = "merge" =>
    /\ walk.pc # "ub"
    /\ walk.pc = "done" =>
         /\ I2(walk.s)
         /\ get_size(walk.s) <= walk.s.capacity
         /\ I1(walk.s)
         /\ \A i \in 0 .. Rows - 1 :
              RowCols(walk.s, i) = RowCols(storage, i) \cup RowCols(right, i)

\* The same, for the calls that stay inside defined behaviour.
C11_UnionWhenDefined ==
  (last.op = "merge" /\ walk.pc = "done") =>
    \A i \in 0 .. Rows - 1 :
      RowCols(walk.s, i) = RowCols(storage, i) \cup RowCols(right, i)

(***************************************************************************)
(* create_from_old_yale(shape, r_ia, r_ja, r_a).  The input lists, row by  *)
(* row and by increasing column, the cells of a cell map (diagonal cells   *)
(* included when listed).  walk holds the input; storage receives the      *)
(* result.  env is what ALLOC_N handed out: a cell the function does not   *)
(* write keeps env's content.                                              *)
(***************************************************************************)
OldShapes == { <<1, 3>>, <<2, 2>>, <<2, 3>> }

\* Cell maps of old-Yale inputs: any cell listed (with the value MaxVal) or not.
OldMaps(sh) == [(0 .. sh[1] - 1) \X (0 .. sh[2] - 1) -> {Absent, MaxVal}]

Listed(cm) == { x \in DOMAIN cm : cm[x] # Absent }

\* Row-major order of cells.
Before(sh, x, y) == x[1] * sh[2] + x[2] < y[1] * sh[2] + y[2]

Rank(sh, cm, x) == Cardinality({ y \in Listed(cm) : Before(sh, y, x) })

CellAt(sh, cm, p) == CHOOSE x \in Listed(cm) : Rank(sh, cm, x) = p

\* The old-Yale triple of a cell map.
OldYale(sh, cm) ==
  LET n == Cardinality(Listed(cm))
  IN  [ia |-> [i \in 0 .. sh[1] |->
                 Cardinality({ x \in Listed(cm) : x[1] < i })],
       ja |-> [p \in 0 .. n - 1 |-> CellAt(sh, cm, p)[2]],
       a  |-> [p \in 0 .. n - 1 |-> cm[CellAt(sh, cm, p)]]]

\* create_from_old_yale, lines 141-150: the count of non-diagonal entries.
OldNdnz(shape, ir, jr) ==
  Cardinality({ p \in DOMAIN jr :
                  \E i \in 0 .. shape[0] - 1 : ir[i] <= p /\ p < ir[i + 1] /\ i # jr[p] })

\* The row of entry p, and the value of pp when the second pass reaches it.
OldRowOf(shape, ir, p) == CHOOSE i \in 0 .. shape[0] - 1 : ir[i] <= p /\ p < ir[i + 1]

OldPP(shape, ir, jr, p) ==
  shape[0] + 1 +
    Cardinality({ q \in DOMAIN jr : q < p /\ OldRowOf(shape, ir, q) # jr[q] })

create_from_old_yale(shape, ir, jr, ar, env) ==
  LET ndnz     == OldNdnz(shape, ir, jr)
      capacity == shape[0] + ndnz + 1
      nd(p)    == OldRowOf(shape, ir, p) # jr[p]
      at(k)    == { p \in DOMAIN jr : nd(p) /\ OldPP(shape, ir, jr, p) = k }
      dg(k)    == { p \in DOMAIN jr : (~nd(p)) /\ jr[p] = k }
  IN  [shape    |-> shape,
       ndnz     |-> ndnz,
       capacity |-> capacity,
       ija      |-> [k \in 0 .. capacity - 1 |->
                       IF k = shape[0] THEN shape[0] + 1 + ndnz
                       ELSE IF at(k) # {} THEN jr[CHOOSE p \in at(k) : TRUE]
                       ELSE env.ija[k]],
       a        |-> [k \in 0 .. capacity - 1 |->
                       IF k = shape[0] THEN 0
                       ELSE IF at(k) # {} THEN ar[CHOOSE p \in at(k) : TRUE]
                       ELSE IF k < shape[0] /\ dg(k) # {} THEN ar[CHOOSE p \in dg(k) : TRUE]
                       ELSE env.a[k]]]

\* What ALLOC_N can hand out for the cells of the prefix 0..R.
OldEnvs(shape, capacity) ==
  { [ija |-> bi, a |-> ba] :
      bi \in [0 .. shape[0] -> 0 .. capacity], ba \in [0 .. shape[0] -> JunkVals] }

InitOld ==
  /\ \E sh \in OldShapes : \E cm \in OldMaps(sh) :
       walk = [pc |-> "old", sh |-> sh, cm |-> cm, in |-> OldYale(sh, cm)]
  /\ storage = NoStorage
  /\ right = NoStorage
  /\ phase = "created"
  /\ last = [NoOp EXCEPT !.op = "old_yale"]
  /\ nins = 0
  /\ ninit = 0

OldYaleOp ==
  /\ walk.pc = "old"
  /\ LET shape == mkshape(walk.sh[1], walk.sh[2])
         in    == walk.in
     IN  \E env \in OldEnvs(shape, shape[0] + OldNdnz(shape, in.ia, in.ja) + 1) :
           storage' = create_from_old_yale(shape, in.ia, in.ja, in.a, env)
  /\ walk' = [walk EXCEPT !.pc = "imported"]
  /\ phase' = "ready"
  /\ UNCHANGED <<right, last, nins, ninit>>

NextOld == OldYaleOp

SpecOld == InitOld /\ [][NextOld]_vars

\* The start of row i in a descriptor that holds the cells of cm.
RowStart(sh, cm, i) ==
  sh[1] + 1 + Cardinality({ x \in Listed(cm) : x[1] < i /\ x[1] # x[2] })

\* C12: the descriptor returned by create_from_old_yale has capacity
\* R + ndnz + 1, every row pointer ija[i] (0 <= i <= R) at the start of row i
\* with ija[R] = size, a[R] = 0, and ref reads at every cell the input's value
\* when the cell is listed and zero otherwise.
C12_OldYaleImport ==
  (last.op = "old_yale" /\ walk.pc = "imported") =>
    /\ storage.capacity = walk.sh[1] + storage.ndnz + 1
    /\ \A i \in 0 .. walk.sh[1] : storage.ija[i] = RowStart(walk.sh, walk.cm, i)
    /\ storage.a[walk.sh[1]] = 0
    /\ \A x \in DOMAIN walk.cm :
         ref(storage, mkshape(x[1], x[2])) =
           (IF walk.cm[x] = Absent THEN 0 ELSE walk.cm[x])

\* What the import does establish: the capacity, ija[R] = size, a[R] = 0, the
\* listed diagonal values, and the off-diagonal entries in input order from
\* position R + 1.
OldYaleWritten ==
  (last.op = "old_yale" /\ walk.pc = "imported") =>
    /\ storage.capacity = walk.sh[1] + storage.ndnz + 1
    /\ get_size(storage) = storage.capacity
    /\ storage.a[walk.sh[1]] = 0
    /\ \A x \in Listed(walk.cm) :
         IF x[1] = x[2] THEN storage.a[x[1]] = walk.cm[x]
         ELSE \E p \in walk.sh[1] + 1 .. storage.capacity - 1 :
                /\ storage.ija[p] = x[2]
                /\ storage.a[p] = walk.cm[x]
                /\ p >= RowStart(walk.sh, walk.cm, x[1])
                /\ p < RowStart(walk.sh, walk.cm, x[1] + 1)

(***************************************************************************)
(* cast_copy.  The descriptor D is of dtype "byte" (unsigned, ByteBits     *)
(* wide) and is copied to the wider "int16" and back.  The element loop    *)
(* la[index] = ra[index] converts as C++ does: to an unsigned type modulo  *)
(* 2^w, to a signed type by wrapping into its range.  walk holds the two   *)
(* copies.                                                                 *)
(***************************************************************************)
ByteBits == 8

Int16Bits == 16

MaxByte == 2 ^ ByteBits - 1

Convert(v, new_dtype) ==
  IF new_dtype = "byte" THEN v % (2 ^ ByteBits)
  ELSE ((v + 2 ^ (Int16Bits - 1)) % (2 ^ Int16Bits)) - 2 ^ (Int16Bits - 1)

\* A slip: the last in-use cell is not copied.
cast_copy_short(rhs, rhs_dtype, new_dtype) ==
  LET size == get_size(rhs)
      lhs  == copy_alloc_struct(rhs, rhs.capacity, size)
  IN  [lhs EXCEPT !.a = [k \in DOMAIN lhs.a |->
                           IF k >= size - 1 \/ rhs.a[k] = Uninit THEN Uninit
                           ELSE IF rhs_dtype = new_dtype THEN rhs.a[k]
                           ELSE Convert(rhs.a[k], new_dtype)]]

cast_copy(rhs, rhs_dtype, new_dtype) ==
  LET size == get_size(rhs)
      lhs  == copy_alloc_struct(rhs, rhs.capacity, size)
  IN  [lhs EXCEPT !.a = [k \in DOMAIN lhs.a |->
                           IF k >= size \/ rhs.a[k] = Uninit THEN Uninit
                           ELSE IF rhs_dtype = new_dtype THEN rhs.a[k]
                           ELSE Convert(rhs.a[k], new_dtype)]]

CastWide ==
  /\ phase = "ready"
  /\ walk = NoWalk
  /\ walk' = [pc |-> "wide", mid |-> cast_copy(storage, "byte", "int16"),
              back |-> NoStorage]
  /\ phase' = "cast"
  /\ last' = [NoOp EXCEPT !.op = "cast_copy"]
  /\ UNCHANGED <<storage, right, nins, ninit>>

CastBack ==
  /\ walk.pc = "wide"
  /\ walk' = [walk EXCEPT !.pc = "back", !.back = cast_copy(walk.mid, "int16", "byte")]
  /\ UNCHANGED <<storage, right, phase, last, nins, ninit>>

NextCast ==
  \/ Next
  \/ \E r \in 0 .. Rows - 1, c \in 0 .. Cols - 1 : SetOp(r, c, MaxByte)
  \/ CastWide
  \/ CastBack

SpecCast == Init /\ [][NextCast]_vars

SamePrefix(d, e) ==
  /\ e.shape = d.shape
  /\ e.ndnz = d.ndnz
  /\ e.capacity = d.capacity
  /\ \A k \in 0 .. get_size(d) - 1 : e.ija[k] = d.ija[k] /\ e.a[k] = d.a[k]

\* C13: casting a descriptor to a wider type and back yields a descriptor with
\* the same shape, ndnz, capacity, ija[0..size) and a[0..size), and neither
\* copy changes the source descriptor.
C13_CastRoundTrip ==
  /\ [](walk.pc = "back" => SamePrefix(storage, walk.back))
  /\ [][(walk'.pc \in {"wide", "back"}) => storage' = storage]_vars

\* A round trip of a descriptor that holds the largest byte off the diagonal
\* and has been resized.
C13_Witness ==
  /\ walk.pc = "back"
  /\ storage.capacity > NM_YALE_MINIMUM(storage)
  /\ \E k \in Rows + 1 .. get_size(storage) - 1 : storage.a[k] = MaxByte

(***************************************************************************)
(* nm_yale_storage_copy_transposed.  storage is the source M, built by     *)
(* create, init and sets; walk receives the result.  The result is         *)
(* allocated by create with the size of M as the request and initialised;  *)
(* transpose_yale (util/math.h) then fills it: the row pointers of the C   *)
(* output rows, and every off-diagonal entry (i,c) of M as column i of     *)
(* output row c, rows of M in order.  It does not grow the buffers: an     *)
(* entry or row pointer past the capacity is a write outside them ("ub").  *)
(***************************************************************************)
TransposeShapes == { <<1, 3>>, <<2, 2>>, <<2, 3>> }

\* The stored off-diagonal entries of s as <<row, column, position>>.
Entries(s) ==
  { <<i, s.ija[p], p>> : i \in 0 .. s.shape[0] - 1, p \in 0 .. s.capacity - 1 } \cap
  { e \in (0 .. s.shape[0] - 1) \X (0 .. s.shape[1] - 1) \X (0 .. s.capacity - 1) :
      s.ija[e[1]] <= e[3] /\ e[3] < s.ija[e[1] + 1] }

\* The position of the entry e of M in the transposed buffers.
TransposedPos(rhs, e) ==
  rhs.shape[1] + 1 +
    Cardinality({ f \in Entries(rhs) : f[2] < e[2] \/ (f[2] = e[2] /\ f[1] < e[1]) })

transpose_yale(rhs, lhs) ==
  LET n   == rhs.shape[1]
      E   == Entries(rhs)
      at(k) == { e \in E : TransposedPos(rhs, e) = k }
      dn  == Min(rhs.shape[0], rhs.shape[1])
  IN  [lhs EXCEPT
         !.ija = [k \in DOMAIN lhs.ija |->
                    IF k <= n THEN n + 1 + Cardinality({ e \in E : e[2] < k })
                    ELSE IF at(k) # {} THEN (CHOOSE e \in at(k) : TRUE)[1]
                    ELSE lhs.ija[k]],
         !.a   = [k \in DOMAIN lhs.a |->
                    IF k < dn THEN rhs.a[k]
                    ELSE IF at(k) # {} THEN rhs.a[(CHOOSE e \in at(k) : TRUE)[3]]
                    ELSE lhs.a[k]],
         !.ndnz = Cardinality(E)]

\* The cells transpose_yale writes are 0 .. C + ndnz.
TransposeInBounds(rhs, lhs) ==
  rhs.shape[1] + 1 + Cardinality(Entries(rhs)) <= lhs.capacity

nm_yale_storage_copy_transposed(rhs) ==
  LET shape == mkshape(rhs.shape[1], rhs.shape[0])
      size  == get_size(rhs)
      lhs0  == nm_yale_storage_create(shape, size)
      lhs   == init(lhs0)
  IN  IF ~InitInBounds(lhs0) \/ ~TransposeInBounds(rhs, lhs)
        THEN [pc |-> "ub", t |-> lhs0]
        ELSE [pc |-> "transposed", t |-> transpose_yale(rhs, lhs)]

InitTranspose ==
  /\ \E sh \in TransposeShapes : \E cm \in CellMaps(sh) : storage = Build(sh, cm)
  /\ right = NoStorage
  /\ phase = "ready"
  /\ last = [NoOp EXCEPT !.op = "transpose"]
  /\ nins = 0
  /\ ninit = 1
  /\ walk = [pc |-> "call", t |-> NoStorage]

TransposeOp ==
  /\ walk.pc = "call"
  /\ walk' = nm_yale_storage_copy_transposed(storage)
  /\ UNCHANGED <<storage, right, phase, last, nins, ninit>>

NextTranspose == TransposeOp

SpecTranspose == InitTranspose /\ [][NextTranspose]_vars

\* C14: the transpose of a well-formed M of shape (R, C) is a descriptor of
\* shape (C, R) whose size equals the size of M and fits inside the capacity
\* it was allocated with.
C14_TransposeFits ==
  (last.op = "transpose" /\ walk.pc # "call") =>
    /\ walk.pc = "transposed"
    /\ walk.t.shape = mkshape(Cols, Rows)
    /\ get_size(walk.t) = get_size(storage)
    /\ get_size(walk.t) <= walk.t.capacity

\* When the result does fit, the shape is (C, R) and the size is that of M
\* plus C - R.
Transpose_SizeWhenFits ==
  (last.op = "transpose" /\ walk.pc = "transposed") =>
    /\ walk.t.shape = mkshape(Cols, Rows)
    /\ get_size(walk.t) = get_size(storage) + Cols - Rows
    /\ get_size(walk.t) <= walk.t.capacity

(***************************************************************************)
(* matrix_multiply(left, right).  storage is left, right is right, walk    *)
(* receives the result.  The result is created with the request            *)
(* left->capacity + right->capacity and initialised; symbmm, numbmm and    *)
(* smmp_sort_columns (util/math.h) are handed the raw ija and a pointers   *)
(* and no capacity, and write the product: its row pointers, and for every *)
(* row the off-diagonal columns in increasing order with their values.     *)
(* The diagonals of the operands count as entries at (i,i).  A cell of the *)
(* product past the capacity is a write outside the buffers ("ub").        *)
(***************************************************************************)
BuildWith(sh, cm, init_capacity) ==
  BuildFrom(init(nm_yale_storage_create(mkshape(sh[1], sh[2]), init_capacity)), 0, cm)

\* A 5x5 pair whose product is dense: column 0 stored in the left operand, row
\* 0 in the right one, each created with the smallest capacity.
OuterDim == 5

OuterMap(byRow) ==
  [x \in (0 .. OuterDim - 1) \X (0 .. OuterDim - 1) |->
     IF x[1] = x[2] THEN MaxVal
     ELSE IF (byRow /\ x[1] = 0) \/ ((~byRow) /\ x[2] = 0) THEN MaxVal
     ELSE Absent]

\* Is (i,k) an entry of s for the multiplication?
HasEntry(s, i, k) ==
  \/ i = k /\ i < Min(s.shape[0], s.shape[1])
  \/ \E e \in Entries(s) : e[1] = i /\ e[2] = k

ProductCells(l, r) ==
  { x \in (0 .. l.shape[0] - 1) \X (0 .. r.shape[1] - 1) :
      /\ x[1] # x[2]
      /\ \E k \in 0 .. l.shape[1] - 1 : HasEntry(l, x[1], k) /\ HasEntry(r, k, x[2]) }

RECURSIVE Dot(_, _, _, _, _)
Dot(l, r, i, j, k) ==
  IF k < 0 THEN 0
  ELSE ref(l, mkshape(i, k)) * ref(r, mkshape(k, j)) + Dot(l, r, i, j, k - 1)

ProductPos(l, r, x) ==
  l.shape[0] + 1 +
    Cardinality({ y \in ProductCells(l, r) : y[1] < x[1] \/ (y[1] = x[1] /\ y[2] < x[2]) })

\* symbmm, numbmm and smmp_sort_columns on an initialised result.
smmp(l, r, result) ==
  LET n     == l.shape[0]
      P     == ProductCells(l, r)
      at(k) == { x \in P : ProductPos(l, r, x) = k }
      dn    == Min(n, r.shape[1])
      inner == l.shape[1] - 1
  IN  [result EXCEPT
         !.ija = [k \in DOMAIN result.ija |->
                    IF k <= n THEN n + 1 + Cardinality({ x \in P : x[1] < k })
                    ELSE IF at(k) # {} THEN (CHOOSE x \in at(k) : TRUE)[2]
                    ELSE result.ija[k]],
         !.a   = [k \in DOMAIN result.a |->
                    IF k < dn THEN Dot(l, r, k, k, inner)
                    ELSE IF at(k) # {}
                      THEN LET x == CHOOSE x \in at(k) : TRUE
                           IN  Dot(l, r, x[1], x[2], inner)
                    ELSE result.a[k]],
         !.ndnz = Cardinality(P)]

\* The cells the three passes write are 0 .. n + |product cells|.
ProductInBounds(l, r, result) ==
  l.shape[0] + 1 + Cardinality(ProductCells(l, r)) <= result.capacity

matrix_multiply(left, right_) ==
  LET resulting_shape == mkshape(left.shape[0], right_.shape[1])
      result0 == nm_yale_storage_create(resulting_shape, left.capacity + right_.capacity)
      result  == init(result0)
  IN  IF ~InitInBounds(result0) \/ ~ProductInBounds(left, right_, result)
        THEN [pc |-> "ub", t |-> result0]
        ELSE [pc |-> "multiplied", t |-> smmp(left, right_, result)]

InitMultiply ==
  /\ \/ \E cl \in CellMaps(<<2, 2>>), cr \in CellMaps(<<2, 2>>) :
          /\ storage = Build(<<2, 2>>, cl)
          /\ right = Build(<<2, 2>>, cr)
     \/ \E cl \in PatternMaps(<<2, 2>>), cr \in PatternMaps(<<2, 3>>) :
          /\ storage = Build(<<2, 2>>, cl)
          /\ right = Build(<<2, 3>>, cr)
     \/ /\ storage = BuildWith(<<OuterDim, OuterDim>>, OuterMap(FALSE), 0)
        /\ right = BuildWith(<<OuterDim, OuterDim>>, OuterMap(TRUE), 0)
  /\ phase = "ready"
  /\ last = [NoOp EXCEPT !.op = "multiply"]
  /\ nins = 0
  /\ ninit = 1
  /\ walk = [pc |-> "call", t |-> NoStorage]

MultiplyOp ==
  /\ walk.pc = "call"
  /\ walk' = matrix_multiply(storage, right)
  /\ UNCHANGED <<storage, right, phase, last, nins, ninit>>

NextMultiply == MultiplyOp

SpecMultiply == InitMultiply /\ [][NextMultiply]_vars

\* C15: matrix_multiply never writes an index or a value at a position at or
\* past the capacity of the result (capacity(L) + capacity(R), clamped by
\* create): the product structure fits.
C15_MultiplyInBounds ==
  (last.op = "multiply" /\ walk.pc # "call") =>
    /\ walk.pc = "multiplied"
    /\ get_size(walk.t) <= walk.t.capacity

\* Would the request cover the product whatever create's clamp?  It does not
\* for the dense 5x5 product.
Multiply_SumCoversProduct ==
  (last.op = "multiply" /\ Rows = OuterDim) =>
    storage.capacity + right.capacity >=
      Rows + 1 + Cardinality(ProductCells(storage, right))

(***************************************************************************)
(* Index arithmetic in the index type.  The index type of a descriptor is  *)
(* the smallest unsigned type that can store max(rows, cols) (file header, *)
(* lines 31-32).  Only the cell ija[R] is followed: init stores IA_INIT    *)
(* there and every insertion adds one to it through increment_ia_after,    *)
(* both computed in IType, i.e. modulo 2^bits.  walk.size is the number    *)
(* the cell should hold, walk.stored the number it holds.                  *)
(***************************************************************************)
MaxIndexInserts == 250

IndexShapes ==
  { <<1, 3>>, <<15, 17>>, <<16, 16>>, <<254, 2>>, <<255, 1>>, <<255, 255>>, <<256, 16>> }

\* The width of the index type of a shape.
ITypeBits(sh) ==
  LET m == IF sh[1] > sh[2] THEN sh[1] ELSE sh[2]
  IN  IF m <= 2 ^ 8 - 1 THEN 8 ELSE IF m <= 2 ^ 16 - 1 THEN 16 ELSE 32

\* A value as IType holds it.
AsIType(bits, v) == v % (2 ^ bits)

\* The number of off-diagonal cells of a shape.
OffDiagCells(sh) == sh[1] * sh[2] - (IF sh[1] < sh[2] THEN sh[1] ELSE sh[2])

InitIndex ==
  /\ \E sh \in IndexShapes :
       walk = [pc |-> "created", sh |-> sh, bits |-> ITypeBits(sh), size |-> 0,
               stored |-> 0, k |-> 0]
  /\ storage = NoStorage
  /\ right = NoStorage
  /\ phase = "created"
  /\ last = [NoOp EXCEPT !.op = "index"]
  /\ nins = 0
  /\ ninit = 0

\* init, line 265: IType IA_INIT = s->shape[0] + 1, stored in ija[0..R].
IndexInit ==
  /\ walk.pc = "created"
  /\ walk' = [walk EXCEPT !.pc = "ready",
                          !.size = walk.sh[1] + 1,
                          !.stored = AsIType(walk.bits, walk.sh[1] + 1)]
  /\ UNCHANGED <<storage, right, phase, last, nins, ninit>>

\* set of a cell not yet stored: increment_ia_after, line 678, ija[R] += 1.
IndexInsert ==
  /\ walk.pc = "ready"
  /\ walk.k < MaxIndexInserts
  /\ walk.k < OffDiagCells(walk.sh)
  /\ walk.size + 1 <= walk.sh[1] * walk.sh[2] + 1
  /\ walk' = [walk EXCEPT !.k = @ + 1,
                          !.size = @ + 1,
                          !.stored = AsIType(walk.bits, @ + 1)]
  /\ UNCHANGED <<storage, right, phase, last, nins, ninit>>

NextIndex == IndexInit \/ IndexInsert

SpecIndex == InitIndex /\ [][NextIndex]_vars

\* C16: with the index type chosen as the smallest unsigned type that holds
\* max(rows, cols), the row pointer ija[R] computed by init and by the
\* insertions of set is held without wrapping, for every shape.
C16_NoIndexOverflow ==
  (last.op = "index" /\ walk.pc = "ready") => walk.stored = walk.size

\* What the selection rule does give: the row count and every column index
\* are representable.
Index_ShapeFits ==
  last.op = "index" =>
    /\ AsIType(walk.bits, walk.sh[1]) = walk.sh[1]
    /\ AsIType(walk.bits, walk.sh[2] - 1) = walk.sh[2] - 1

\* C17: when vector_insert(pos, n = 1) with R + 1 <= pos finds
\* size + n > capacity and reallocates, the new buffers hold the old cells
\* below pos unchanged and the old cells pos .. size-1 one position to the
\* right, in ija and in a.
C17_ResizeCopy ==
  [][(/\ last'.op = "insert"
      /\ last'.err = "none"
      /\ last'.coords[0] >= Rows + 1
      /\ get_size(storage) + 1 > storage.capacity) =>
       LET pos == last'.coords[0]
       IN  \A k \in 0 .. get_size(storage) - 1 :
             IF k < pos
               THEN /\ storage'.ija[k] = storage.ija[k]
                    /\ storage'.a[k] = storage.a[k]
               ELSE /\ storage'.ija[k + 1] = storage.ija[k]
                    /\ storage'.a[k + 1] = storage.a[k]]_vars

\* What the resize path does copy: the cells below pos, and the new capacity
\* holds size + 1 cells.
Resize_HeadCopied ==
  [][(/\ last'.op = "insert"
      /\ last'.err = "none"
      /\ get_size(storage) + 1 > storage.capacity) =>
       /\ storage'.capacity >= get_size(storage) + 1
       /\ \A k \in 0 .. last'.coords[0] - 1 :
            storage'.ija[k] = storage.ija[k] /\ storage'.a[k] = storage.a[k]]_vars

\* The position at which column c belongs in row r of s.
ExpectedPos(s, r, c) ==
  s.ija[r] + Cardinality({ p \in s.ija[r] .. s.ija[r + 1] - 1 : s.ija[p] < c })

\* The effect of inserting (r,c) = v into s, seen in t.
InsertedAt(s, t, r, c, v) ==
  LET pos == ExpectedPos(s, r, c)
  IN  /\ get_size(t) = get_size(s) + 1
      /\ t.ndnz = s.ndnz + 1
      /\ \A k \in 0 .. r : t.ija[k] = s.ija[k]
      /\ \A k \in r + 1 .. s.shape[0] : t.ija[k] = s.ija[k] + 1
      /\ t.ija[pos] = c /\ t.a[pos] = v
      /\ \A p \in s.shape[0] + 1 .. pos - 1 : t.ija[p] = s.ija[p] /\ t.a[p] = s.a[p]
      /\ \A p \in pos .. get_size(s) - 1 : t.ija[p + 1] = s.ija[p] /\ t.a[p + 1] = s.a[p]

\* A set that stores a new off-diagonal cell of a descriptor with sorted rows.
SetsNewCell ==
  /\ last'.op = "set"
  /\ last'.err = "none"
  /\ last'.coords[0] # last'.coords[1]
  /\ I1(storage)
  /\ last'.coords[1] \notin RowCols(storage, last'.coords[0])

\* C18: a set on an off-diagonal cell (r,c) that is not yet stored returns
\* 'i', adds one to size and to ndnz, leaves ija[0..r] unchanged and adds one
\* to each of ija[r+1..R]; c is placed where the row stays sorted, and the
\* entries after it move one position right with their values.
C18_SetInserts ==
  [][SetsNewCell =>
       /\ last'.ret = "i"
       /\ InsertedAt(storage, storage', last'.coords[0], last'.coords[1], last'.v)]_vars

\* The same, for the insertions that fit in the capacity.
SetInserts_InPlace ==
  [][(SetsNewCell /\ get_size(storage) + 1 <= storage.capacity) =>
       /\ last'.ret = "i"
       /\ InsertedAt(storage, storage', last'.coords[0], last'.coords[1], last'.v)]_vars

\* Every cell other than x reads the same in s and in t.
SameElsewhere(s, t, x) ==
  \A i \in 0 .. s.shape[0] - 1, k \in 0 .. s.shape[1] - 1 :
    (i # x[0] \/ k # x[1]) => ref(t, mkshape(i, k)) = ref(s, mkshape(i, k))

\* C19: set(D,(r,c),v) leaves the value that ref reads at every other cell
\* unchanged, also when the set resizes the buffers.
C19_SetFrame ==
  [][last'.op = "set" => SameElsewhere(storage, storage', last'.coords)]_vars

\* The same, for the sets on a descriptor with sorted rows that do not
\* resize.
SetFrame_InPlace ==
  [][(/\ last'.op = "set"
      /\ I1(storage)
      /\ storage'.capacity = storage.capacity) =>
       SameElsewhere(storage, storage', last'.coords)]_vars

\* C20: the row walk of eqeq reads a only inside the two row ranges it was
\* given, never leaves the buffers, and has both sides marked as exhausted
\* once both cursors have reached their row's end.
C20_WalkReadsInRange ==
  last.op = "eqeq" =>
    /\ walk.pc # "ub"
    /\ \A rd \in walk.reads :
         rd[2] < (IF rd[1] = "l" THEN walk.l_ija_next ELSE walk.r_ija_next)
    /\ (walk.pc = "ndrow" /\ walk.l_ija >= walk.l_ija_next /\ walk.r_ija >= walk.r_ija_next)
         => (walk.l_no_more /\ walk.r_no_more)

\* What does hold: no read is below the start of the row, and the left cursor
\* is read only inside the left row.
Walk_LeftReadsInRange ==
  last.op = "eqeq" =>
    \A rd \in walk.reads :
      /\ rd[2] >= Rows + 1
      /\ rd[1] = "l" => rd[2] < walk.l_ija_next

\* C21: in every state reached by create, init and any interleaving of init
\* and set calls, ndnz is the number of stored off-diagonal entries,
\* ndnz = ija[R] - (R + 1).
C21_NdnzCount ==
  Defined => storage.ndnz = storage.ija[Rows] - (Rows + 1)

\* The same, up to the second init: set keeps the count.
Ndnz_UntilReinit ==
  (Defined /\ ninit = 1) => storage.ndnz = storage.ija[Rows] - (Rows + 1)

\* Neither init nor a replacing or failing set changes ndnz, and an inserting
\* set adds one to it.
Ndnz_Steps ==
  [][storage'.ndnz =
       (IF last'.op = "set" /\ last'.ret = "i" THEN storage.ndnz + 1 ELSE storage.ndnz)]_vars

(***************************************************************************)
(* The row-pointer loops, one iteration per step, with the loop variables  *)
(* held in IType.  walk.seen is the set of cells of ija the current loop   *)
(* has written, walk.dup tells that it wrote one of them a second time.    *)
(* First the loop of init, then the loop of increment_ia_after(s, R, row,  *)
(* 1) as set calls it.                                                     *)
(***************************************************************************)
LoopShapes == { <<1, 3>>, <<3, 2>>, <<254, 1>>, <<255, 1>>, <<1, 255>>, <<256, 1>> }

InitLoops ==
  /\ \E sh \in LoopShapes :
       walk = [pc |-> "init", sh |-> sh, bits |-> ITypeBits(sh), IA_INIT |-> 0,
               i |-> 0, row |-> 0, seen |-> {}, dup |-> FALSE]
  /\ storage = NoStorage
  /\ right = NoStorage
  /\ phase = "created"
  /\ last = [NoOp EXCEPT !.op = "loops"]
  /\ nins = 0
  /\ ninit = 0

\* init, lines 265-269: IType IA_INIT = s->shape[0] + 1; IType i = 0.
LoopInitBegin ==
  /\ walk.pc = "init"
  /\ walk' = [walk EXCEPT !.pc = "init_loop",
                          !.IA_INIT = AsIType(walk.bits, walk.sh[1] + 1),
                          !.i = 0]
  /\ UNCHANGED <<storage, right, phase, last, nins, ninit>>

\* init, lines 269-271: for (; i < IA_INIT; ++i) ija[i] = IA_INIT.
LoopInitStep ==
  /\ walk.pc = "init_loop"
  /\ walk' = IF walk.i < walk.IA_INIT
               THEN [walk EXCEPT !.dup = @ \/ (walk.i \in walk.seen),
                                 !.seen = @ \cup {walk.i},
                                 !.i = AsIType(walk.bits, @ + 1)]
               ELSE [walk EXCEPT !.pc = "init_done"]
  /\ UNCHANGED <<storage, right, phase, last, nins, ninit>>

\* increment_ia_after, lines 673-676: IType ija_size = R, IType i = row; ++i.
LoopIncBegin ==
  /\ walk.pc = "init_done"
  /\ \E row \in {0, walk.sh[1] - 1} :
       walk' = [walk EXCEPT !.pc = "inc_loop", !.row = row,
                            !.i = AsIType(walk.bits, row + 1),
                            !.seen = {}, !.dup = FALSE]
  /\ UNCHANGED <<storage, right, phase, last, nins, ninit>>

\* increment_ia_after, lines 677-679: for (; i <= ija_size; ++i) ija[i] += n.
LoopIncStep ==
  /\ walk.pc = "inc_loop"
  /\ walk' = IF walk.i <= AsIType(walk.bits, walk.sh[1])
               THEN [walk EXCEPT !.dup = @ \/ (walk.i \in walk.seen),
                                 !.seen = @ \cup {walk.i},
                                 !.i = AsIType(walk.bits, @ + 1)]
               ELSE [walk EXCEPT !.pc = "done"]
  /\ UNCHANGED <<storage, right, phase, last, nins, ninit>>

NextLoops == LoopInitBegin \/ LoopInitStep \/ LoopIncBegin \/ LoopIncStep

SpecLoops == InitLoops /\ [][NextLoops]_vars

\* A loop that can take an iteration does take it.
SpecLoopsFair == SpecLoops /\ WF_vars(NextLoops)

\* The loops did what they are meant to for the state reached so far.
LoopsCover ==
  /\ walk.pc = "init_done" => walk.seen = 0 .. walk.sh[1]
  /\ walk.pc \in {"inc_loop", "done"} =>
       /\ ~walk.dup
       /\ walk.seen \subseteq walk.row + 1 .. walk.sh[1]
  /\ walk.pc = "done" => walk.seen = walk.row + 1 .. walk.sh[1]

\* C22: for every row count R the index type admits, R equal to its maximum
\* included, init writes all of ija[0..R] and increment_ia_after visits
\* ija[i+1..R] exactly once each and then stops.
C22_LoopsCoverAndStop == last.op = "loops" => LoopsCover

\* The same, for the row counts below the maximum of the index type.
Loops_BelowMax ==
  (last.op = "loops" /\ walk.sh[1] < 2 ^ walk.bits - 1) => LoopsCover

\* Both loops come to an end.
Loops_Terminate == <>(walk.pc = "done")

====
